---- MODULE Spec2Model ----
(***************************************************************************)
(* Model of extract_transcript.py: the TTML-to-text transcript extractor.  *)
(*                                                                         *)
(* A Python str is a sequence of tokens.  A token is one character, or a   *)
(* run of characters the program never splits ("PodcastContent", ".ttml",  *)
(* ".txt", "./transcripts/").  A float is a record [kind, ms]: kind is     *)
(* "finite", "nan" or "inf", and ms is the value in milliseconds, which is *)
(* exact for the inputs used here (at most three fractional digits).       *)
(***************************************************************************)
EXTENDS Integers, Sequences, FiniteSets, TLC

VARIABLES
    args,             \* the parsed command line: input_file, output_file, timestamps
    dir_exists,       \* whether ./transcripts exists
    listing,          \* the paths os.walk yields under the cache directory, in walk order
    pc,               \* where main is: "start", "loop", "done", "exit1", "crashed"
    files,            \* the list find_ttml_files returned
    idx,              \* the position of the batch loop in files
    filename_counts,  \* the identifier -> count table
    ttml_content,     \* <<>> before the first successful read, then <<document>>
    output_path,      \* the output path of the current file
    fs,               \* the files at the output locations
    stdout,           \* the messages printed so far
    exit_status,      \* the exit status, meaningful once main has ended
    opened,           \* the paths handed to open(path, "r"), in order
    scanned           \* whether find_ttml_files walked the cache directory

vars == <<args, dir_exists, listing, pc, files, idx, filename_counts,
          ttml_content, output_path, fs, stdout, exit_status, opened, scanned>>

--------------------------------------------------------------------------
(* Strings                                                                 *)

Digits == <<"0", "1", "2", "3", "4", "5", "6", "7", "8", "9">>

IsDigit(c) == \E d \in 1..10 : Digits[d] = c

DigitVal(c) == (CHOOSE d \in 1..10 : Digits[d] = c) - 1

Whitespace == {" ", "\n"}

RECURSIVE LStrip(_)
LStrip(s) ==
    IF s # <<>> /\ Head(s) \in Whitespace THEN LStrip(Tail(s)) ELSE s

RECURSIVE RStrip(_)
RStrip(s) ==
    IF s # <<>> /\ s[Len(s)] \in Whitespace
    THEN RStrip(SubSeq(s, 1, Len(s) - 1))
    ELSE s

\* str.strip()
Strip(s) == RStrip(LStrip(s))

\* sep.join(parts)
RECURSIVE Join(_, _)
Join(sep, parts) ==
    IF parts = <<>> THEN <<>>
    ELSE IF Len(parts) = 1 THEN parts[1]
    ELSE parts[1] \o sep \o Join(sep, Tail(parts))

\* str(n) for a natural number n
RECURSIVE NatStr(_)
NatStr(n) ==
    IF n < 10 THEN <<Digits[n + 1]>>
    ELSE NatStr(n \div 10) \o <<Digits[(n % 10) + 1]>>

\* f"{n:02d}": sign-aware zero padding to width 2
Pad2(n) ==
    IF n < 0 THEN <<"-">> \o NatStr(0 - n)
    ELSE IF n < 10 THEN <<"0">> \o NatStr(n)
    ELSE NatStr(n)

--------------------------------------------------------------------------
(* float(str) and format_timestamp                                         *)

RECURSIVE DigitsVal(_)
DigitsVal(s) ==
    IF s = <<>> THEN 0
    ELSE 10 * DigitsVal(SubSeq(s, 1, Len(s) - 1)) + DigitVal(s[Len(s)])

DotPositions(s) == {k \in 1..Len(s) : s[k] = "."}

\* the fractional digits as milliseconds (digits after the third are dropped)
FracMs(f) ==
    LET f3 == SubSeq(f \o <<"0", "0", "0">>, 1, 3) IN DigitsVal(f3)

\* an unsigned decimal literal: digits, with at most one ".", at least one digit
IsDecimal(s) ==
    /\ Cardinality(DotPositions(s)) <= 1
    /\ \E k \in 1..Len(s) : IsDigit(s[k])
    /\ \A k \in 1..Len(s) : IsDigit(s[k]) \/ s[k] = "."

DecimalMs(s) ==
    IF DotPositions(s) = {} THEN 1000 * DigitsVal(s)
    ELSE LET d == CHOOSE k \in DotPositions(s) : TRUE
         IN  1000 * DigitsVal(SubSeq(s, 1, d - 1))
               + FracMs(SubSeq(s, d + 1, Len(s)))

\* float(s): [raised |-> TRUE] is ValueError
PyFloat(s) ==
    LET t    == Strip(s)
        neg  == t # <<>> /\ Head(t) = "-"
        body == IF t # <<>> /\ Head(t) \in {"+", "-"} THEN Tail(t) ELSE t
    IN  IF body = <<"n", "a", "n">>
        THEN [raised |-> FALSE, kind |-> "nan", ms |-> 0]
        ELSE IF body = <<"i", "n", "f">>
        THEN [raised |-> FALSE, kind |-> "inf", ms |-> 0]
        ELSE IF IsDecimal(body)
        THEN [raised |-> FALSE, kind |-> "finite",
              ms |-> IF neg THEN 0 - DecimalMs(body) ELSE DecimalMs(body)]
        ELSE [raised |-> TRUE, kind |-> "none", ms |-> 0]

\* the int 0 assigned in the except branch
ZeroSeconds == [raised |-> FALSE, kind |-> "finite", ms |-> 0]

\* int(x) truncates toward zero; x is given in milliseconds
IntOfMs(ms) == IF ms >= 0 THEN ms \div 1000 ELSE 0 - ((0 - ms) \div 1000)

\* seconds // 3600, (seconds % 3600) // 60 and seconds % 60 are floored
\* (Python's // and % floor, as \div and % do here); int() then truncates.
\* nan and inf make seconds // 3600 nan, and int(nan) raises ValueError.
format_timestamp(seconds) ==
    IF seconds.kind # "finite"
    THEN [raised |-> TRUE, str |-> <<>>]
    ELSE LET ms == seconds.ms
             h  == IntOfMs((ms \div 3600000) * 1000)
             m  == IntOfMs(((ms % 3600000) \div 60000) * 1000)
             s  == IntOfMs(ms % 60000)
         IN  [raised |-> FALSE,
              str |-> Pad2(h) \o <<":">> \o Pad2(m) \o <<":">> \o Pad2(s)]

--------------------------------------------------------------------------
(* XML elements as xml.etree.ElementTree presents them.  An element is     *)
(* [tag |-> [ns, local], attrib |-> [has_begin, begin], text, children],   *)
(* children a sequence of [elem, tail].  A document is [wf, root]: wf says *)
(* whether the text is well-formed XML, root is its parsed tree.           *)

NoAttrib == [has_begin |-> FALSE, begin |-> <<>>]

Begin(v) == [has_begin |-> TRUE, begin |-> v]

Elem(ns, local, attrib, text, children) ==
    [tag |-> [ns |-> ns, local |-> local], attrib |-> attrib,
     text |-> text, children |-> children]

\* a child with no tail text
Kid(e) == [elem |-> e, tail |-> <<>>]

RECURSIVE Flatten(_)
Flatten(seqs) ==
    IF seqs = <<>> THEN <<>> ELSE Head(seqs) \o Flatten(Tail(seqs))

\* element.iter(): the element and its descendants in document order
RECURSIVE Iter(_)
Iter(e) ==
    <<e>> \o Flatten([k \in 1..Len(e.children) |-> Iter(e.children[k].elem)])

\* the "{*}name" test: any namespace (or none), the given local name
MatchesAnyNs(e, local) == e.tag.local = local

\* elem.findall("{*}name"): the direct children with that local name
FindChildren(e, local) ==
    LET kids == [k \in 1..Len(e.children) |-> e.children[k].elem]
    IN  SelectSeq(kids, LAMBDA c : MatchesAnyNs(c, local))

\* root.findall(".//{*}name"): the proper descendants with that local name
FindDescendants(e, local) ==
    SelectSeq(Flatten([k \in 1..Len(e.children) |-> Iter(e.children[k].elem)]),
              LAMBDA c : MatchesAnyNs(c, local))

\* the p children of the first div child of the first body only
FindParagraphs_FirstDivOnly(root) ==
    LET bodies == FindDescendants(root, "body")
        divs   == IF bodies = <<>> THEN <<>> ELSE FindChildren(bodies[1], "div")
    IN  IF divs = <<>> THEN <<>> ELSE FindChildren(divs[1], "p")

\* root.findall(".//{*}body/{*}div/{*}p")
FindParagraphs(root) ==
    LET bodies == FindDescendants(root, "body")
        divs   == Flatten([b \in 1..Len(bodies) |-> FindChildren(bodies[b], "div")])
    IN  Flatten([d \in 1..Len(divs) |-> FindChildren(divs[d], "p")])

\* extract_text(element)
RECURSIVE extract_text(_)
extract_text(element) ==
    LET own   == IF element.text # <<>> THEN <<element.text>> ELSE <<>>
        kids  == [k \in 1..Len(element.children) |->
                    <<extract_text(element.children[k].elem)>>
                      \o (IF element.children[k].tail # <<>>
                          THEN <<element.children[k].tail>> ELSE <<>>)]
        texts == own \o Flatten(kids)
    IN  Strip(Join(<<" ">>, texts))

\* the inner loop over span_elements, then strip()
RECURSIVE SpanText(_)
SpanText(span_elements) ==
    IF span_elements = <<>> THEN <<>>
    ELSE extract_text(Head(span_elements)) \o <<" ">> \o SpanText(Tail(span_elements))

ParagraphText(p) == Strip(SpanText(FindChildren(p, "span")))

\* a loop body that appends an empty line for a paragraph without text
ParagraphLine_KeepEmpty(p, include_timestamps) ==
    LET paragraph_text == ParagraphText(p)
    IN  IF include_timestamps /\ p.attrib.has_begin /\ paragraph_text # <<>>
        THEN LET f         == PyFloat(p.attrib.begin)
                 timestamp == format_timestamp(IF f.raised THEN ZeroSeconds ELSE f)
             IN  IF timestamp.raised
                 THEN [raised |-> TRUE, lines |-> <<>>]
                 ELSE [raised |-> FALSE,
                       lines |-> << <<"[">> \o timestamp.str \o <<"]", " ">>
                                      \o paragraph_text >>]
        ELSE [raised |-> FALSE, lines |-> <<paragraph_text>>]

\* the body of the loop over paragraphs for one p: the lines it appends
\* (none or one), or raised when format_timestamp raises
ParagraphLine(p, include_timestamps) ==
    LET span_elements  == FindChildren(p, "span")
        paragraph_text == ParagraphText(p)
    IN  IF span_elements = <<>> \/ paragraph_text = <<>>
        THEN [raised |-> FALSE, lines |-> <<>>]
        ELSE IF include_timestamps /\ p.attrib.has_begin
        THEN LET f         == PyFloat(p.attrib.begin)
                 seconds   == IF f.raised THEN ZeroSeconds ELSE f
                 timestamp == format_timestamp(seconds)
             IN  IF timestamp.raised
                 THEN [raised |-> TRUE, lines |-> <<>>]
                 ELSE [raised |-> FALSE,
                       lines |-> << <<"[">> \o timestamp.str \o <<"]", " ">>
                                      \o paragraph_text >>]
        ELSE [raised |-> FALSE, lines |-> <<paragraph_text>>]

\* the loop over paragraphs: the transcript list, or raised
RECURSIVE BuildTranscript(_, _)
BuildTranscript(paragraphs, include_timestamps) ==
    IF paragraphs = <<>> THEN [raised |-> FALSE, lines |-> <<>>]
    ELSE LET first == ParagraphLine(Head(paragraphs), include_timestamps)
         IN  IF first.raised THEN first
             ELSE LET rest == BuildTranscript(Tail(paragraphs), include_timestamps)
                  IN  IF rest.raised THEN rest
                      ELSE [raised |-> FALSE, lines |-> first.lines \o rest.lines]

--------------------------------------------------------------------------
(* Files and standard output                                               *)

Msg(kind, path, n) == [kind |-> kind, path |-> path, n |-> n]

\* the files under the output locations: a set of [path, content]
Exists(store, path) == \E f \in store : f.path = path

Content(store, path) == (CHOOSE f \in store : f.path = path).content

WriteFile(store, path, content) ==
    {f \in store : f.path # path} \cup {[path |-> path, content |-> content]}

\* outcomes of open(output_path, "w") followed by f.write(output_text)
WriteOutcomes == {"ok", "open_error", "write_error"}

\* the try block that opens output_path for writing and writes output_text:
\* "ok" writes and reports the save; "open_error" leaves the file as it was;
\* "write_error" fails after open() has created or truncated the file
SaveTranscript(output_text, path, store, outcome) ==
    IF outcome = "ok"
    THEN [raised |-> FALSE,
          store |-> WriteFile(store, path, output_text),
          printed |-> <<Msg("saved", path, 0)>>]
    ELSE IF outcome = "write_error"
    THEN [raised |-> FALSE,
          store |-> WriteFile(store, path, <<>>),
          printed |-> <<Msg("write_error", path, 0)>>]
    ELSE [raised |-> FALSE, store |-> store,
          printed |-> <<Msg("write_error", path, 0)>>]

\* extract_transcript that returns without writing when no line was built
extract_transcript_SkipEmpty(content, path, include_timestamps, store, outcome) ==
    IF ~content.wf
    THEN [raised |-> FALSE, store |-> store,
          printed |-> <<Msg("xml_error", <<>>, 0)>>]
    ELSE LET transcript ==
                 BuildTranscript(FindParagraphs(content.root), include_timestamps)
         IN  IF transcript.raised
             THEN [raised |-> TRUE, store |-> store, printed |-> <<>>]
             ELSE IF transcript.lines = <<>>
             THEN [raised |-> FALSE, store |-> store,
                   printed |-> <<Msg("no_paragraphs", <<>>, 0)>>]
             ELSE SaveTranscript(Join(<<"\n", "\n">>, transcript.lines),
                                 path, store, outcome)

\* extract_transcript that goes on to write an empty transcript after a
\* parse error
extract_transcript_WriteOnError(content, path, include_timestamps, store, outcome) ==
    IF ~content.wf
    THEN LET saved == SaveTranscript(<<>>, path, store, outcome)
         IN  [raised |-> FALSE, store |-> saved.store,
              printed |-> <<Msg("xml_error", <<>>, 0)>> \o saved.printed]
    ELSE LET transcript ==
                 BuildTranscript(FindParagraphs(content.root), include_timestamps)
         IN  IF transcript.raised
             THEN [raised |-> TRUE, store |-> store, printed |-> <<>>]
             ELSE SaveTranscript(Join(<<"\n", "\n">>, transcript.lines),
                                 path, store, outcome)

\* extract_transcript(ttml_content, output_path, include_timestamps) on the
\* file store `store`, the write ending as `outcome`: the new store, what is
\* printed, and whether an exception leaves the function
extract_transcript(content, path, include_timestamps, store, outcome) ==
    IF ~content.wf
    THEN [raised |-> FALSE, store |-> store,
          printed |-> <<Msg("xml_error", <<>>, 0)>>]
    ELSE LET transcript ==
                 BuildTranscript(FindParagraphs(content.root), include_timestamps)
             output_text == Join(<<"\n", "\n">>, transcript.lines)
         IN  IF transcript.raised
             THEN [raised |-> TRUE, store |-> store, printed |-> <<>>]
             ELSE SaveTranscript(output_text, path, store, outcome)

--------------------------------------------------------------------------
(* find_ttml_files                                                         *)

Separators == {"/", "\\"}

EndsWithTtml(path) == path # <<>> /\ path[Len(path)] = ".ttml"

\* the positions where re.search(r'PodcastContent([^/\\]+)', path) can match
MarkerPositions(path) ==
    {k \in 1..Len(path) - 1 :
        path[k] = "PodcastContent" /\ path[k + 1] \notin Separators}

\* the longest run of non-separator tokens starting at position k
RECURSIVE RunFrom(_, _)
RunFrom(path, k) ==
    IF k > Len(path) \/ path[k] \in Separators THEN <<>>
    ELSE <<path[k]>> \o RunFrom(path, k + 1)

\* match.group(1) of the leftmost match
FileId(path) ==
    LET k == CHOOSE m \in MarkerPositions(path) :
                 \A n \in MarkerPositions(path) : m <= n
    IN  RunFrom(path, k + 1)

RECURSIVE find_ttml_files(_)
find_ttml_files(paths) ==
    IF paths = <<>> THEN <<>>
    ELSE LET full_path == Head(paths)
             rest      == find_ttml_files(Tail(paths))
         IN  IF EndsWithTtml(full_path) /\ MarkerPositions(full_path) # {}
             THEN <<[path |-> full_path, id |-> FileId(full_path)]>> \o rest
             ELSE rest

--------------------------------------------------------------------------
(* main                                                                    *)

\* an optional positional argument: absent, or present with a value
Absent == [given |-> FALSE, val |-> <<>>]

Given(v) == [given |-> TRUE, val |-> v]

\* Python truthiness of an optional str: None and "" are false
Truthy(a) == a.given /\ a.val # <<>>

\* a mode test that looks at the two paths only
SingleFileMode_PathsOnly(a) == Truthy(a.input_file) /\ Truthy(a.output_file)

\* the condition selecting single-file mode
SingleFileMode(a) ==
    Truthy(a.input_file) /\ Truthy(a.output_file) /\ ~a.timestamps

\* filename_counts.get(base_filename, 0)
CountOf(counts, id) == IF id \in DOMAIN counts THEN counts[id] ELSE 0

\* the table with the count of id left as it was
CountUp_Stuck(counts, id) ==
    [x \in DOMAIN counts \cup {id} |-> CountOf(counts, x)]

\* filename_counts[base_filename] = count + 1
CountUp(counts, id) ==
    [x \in DOMAIN counts \cup {id} |->
        IF x = id THEN CountOf(counts, id) + 1 ELSE counts[x]]

\* os.path.join(transcripts_dir, f"{base_filename}{suffix}.txt")
OutputPath(base_filename, count) ==
    LET suffix == IF count = 0 THEN <<>> ELSE <<"-">> \o NatStr(count)
    IN  <<"./transcripts/">> \o base_filename \o suffix \o <<".txt">>

\* main in single-file mode: make the output directory, read the input,
\* run extract_transcript once on the given output path
SingleFile(pool) ==
    /\ pc = "start"
    /\ SingleFileMode(args)
    /\ dir_exists' = TRUE
    /\ opened' = Append(opened, args.input_file.val)
    /\ output_path' = args.output_file.val
    /\ \E readable \in BOOLEAN, doc \in pool, outcome \in WriteOutcomes :
         IF ~readable
         THEN /\ stdout' = Append(stdout, Msg("read_error", args.input_file.val, 0))
              /\ pc' = "exit1"
              /\ exit_status' = 1
              /\ UNCHANGED <<ttml_content, fs>>
         ELSE LET r == extract_transcript(doc, args.output_file.val,
                                          args.timestamps, fs, outcome)
              IN  /\ ttml_content' = <<doc>>
                  /\ fs' = r.store
                  /\ stdout' = stdout \o r.printed
                  /\ pc' = IF r.raised THEN "crashed" ELSE "done"
                  /\ exit_status' = IF r.raised THEN 1 ELSE 0
    /\ UNCHANGED <<args, listing, files, idx, filename_counts, scanned>>

\* main in batch mode, up to the loop: make the output directory, scan the
\* cache directory, print the two progress lines
BatchStart ==
    /\ pc = "start"
    /\ ~SingleFileMode(args)
    /\ dir_exists' = TRUE
    /\ files' = find_ttml_files(listing)
    /\ scanned' = TRUE
    /\ stdout' = stdout \o <<Msg("searching", <<>>, 0),
                              Msg("found", <<>>, Len(find_ttml_files(listing)))>>
    /\ idx' = 1
    /\ pc' = "loop"
    /\ UNCHANGED <<args, listing, filename_counts, ttml_content, output_path,
                   fs, exit_status, opened>>

\* one iteration of the loop over files
BatchIteration(pool) ==
    /\ pc = "loop"
    /\ idx <= Len(files)
    /\ LET file          == files[idx]
           base_filename == file.id
           count         == CountOf(filename_counts, base_filename)
           path          == OutputPath(base_filename, count)
       IN  /\ output_path' = path
           /\ filename_counts' = CountUp(filename_counts, base_filename)
           /\ opened' = Append(opened, file.path)
           /\ \E readable \in BOOLEAN, doc \in pool, outcome \in WriteOutcomes :
                IF ~readable
                THEN /\ stdout' = Append(stdout, Msg("read_error", file.path, 0))
                     /\ idx' = idx + 1
                     /\ UNCHANGED <<ttml_content, fs, pc, exit_status>>
                ELSE LET r == extract_transcript(doc, path, args.timestamps,
                                                 fs, outcome)
                     IN  /\ ttml_content' = <<doc>>
                         /\ fs' = r.store
                         /\ stdout' = stdout \o r.printed
                         /\ idx' = IF r.raised THEN idx ELSE idx + 1
                         /\ pc' = IF r.raised THEN "crashed" ELSE pc
                         /\ exit_status' = IF r.raised THEN 1 ELSE exit_status
    /\ UNCHANGED <<args, dir_exists, listing, files, scanned>>

\* the loop is exhausted: main returns and the interpreter exits with 0
BatchEnd ==
    /\ pc = "loop"
    /\ idx > Len(files)
    /\ pc' = "done"
    /\ exit_status' = 0
    /\ UNCHANGED <<args, dir_exists, listing, files, idx, filename_counts,
                   ttml_content, output_path, fs, stdout, opened, scanned>>

--------------------------------------------------------------------------
(* Inputs                                                                  *)

MaxDivs == 2

MaxListing == 3

\* begin attribute values
B90    == <<"9", "0">>
BHms   == <<"1", ":", "4", "0", ":", "1", "4", ".", "7", "0", "0">>
BMs    == <<"4", "0", ":", "1", "5", ".", "8">>
BFrac  == <<"3", "6", "6", "1", ".", "9">>
BBogus == <<"b", "o", "g", "u", "s">>
BEmpty == <<>>
BNan   == <<"n", "a", "n">>
BInf   == <<"i", "n", "f">>
BNeg   == <<"-", "5">>
BPad   == <<" ", "7", " ">>

BeginValues == {B90, BHms, BMs, BFrac, BBogus, BEmpty, BNan, BInf, BNeg, BPad}

Ttml == "http://www.w3.org/ns/ttml"

SpanA == Elem(Ttml, "span", NoAttrib, <<"a">>, <<>>)

SpanWs == Elem(Ttml, "span", NoAttrib, <<" ">>, <<>>)

\* <span>b<i>c</i>d</span>, outside any namespace
SpanNested ==
    Elem("", "span", NoAttrib, <<"b">>,
         << [elem |-> Elem("", "i", NoAttrib, <<"c">>, <<>>), tail |-> <<"d">>] >>)

\* <x><span>a</span></x>: a span that is not a direct child of the paragraph
Wrapped == Elem(Ttml, "x", NoAttrib, <<>>, <<Kid(SpanA)>>)

P(attrib, kids) == Elem(Ttml, "p", attrib, <<>>, kids)

Div(ps) == Elem(Ttml, "div", NoAttrib, <<>>, [k \in 1..Len(ps) |-> Kid(ps[k])])

Body(divs) ==
    Elem(Ttml, "body", NoAttrib, <<>>, [k \in 1..Len(divs) |-> Kid(divs[k])])

Head0 == Elem(Ttml, "head", NoAttrib, <<>>, <<>>)

Tt(kids) == [wf |-> TRUE, root |-> Elem(Ttml, "tt", NoAttrib, <<>>, kids)]

\* text that is not well-formed XML
Malformed == [wf |-> FALSE, root |-> Elem("", "", NoAttrib, <<>>, <<>>)]

NoBodyDoc == Tt(<<Kid(Head0)>>)

\* a body whose only child is a p: no div under body
NoDivDoc ==
    Tt(<<Kid(Head0),
         Kid(Elem(Ttml, "body", NoAttrib, <<>>, <<Kid(P(Begin(B90), <<Kid(SpanA)>>))>>))>>)

OneParagraphDoc(attrib) == Tt(<<Kid(Head0), Kid(Body(<<Div(<<P(attrib, <<Kid(SpanA)>>)>>)>>))>>)

ParaPool ==
    { P(NoAttrib, <<>>),
      P(Begin(B90), <<Kid(SpanWs)>>),
      P(NoAttrib, <<Kid(Wrapped)>>),
      P(NoAttrib, <<Kid(SpanA)>>),
      P(Begin(B90), <<Kid(SpanNested), Kid(SpanWs), Kid(SpanA)>>) }

DivPool ==
    {Div(<<>>)} \cup {Div(<<p>>) : p \in ParaPool}
        \cup {Div(<<p, q>>) : p \in ParaPool, q \in ParaPool}

SeqsUpTo(S, n) == UNION {[1..m -> S] : m \in 0..n}

StructDocs == {Tt(<<Kid(Head0), Kid(Body(divs))>>) : divs \in SeqsUpTo(DivPool, MaxDivs)}

BeginDocs == {OneParagraphDoc(Begin(b)) : b \in BeginValues}

BuilderDocs == {Malformed, NoBodyDoc, NoDivDoc} \cup StructDocs \cup BeginDocs

DriverDocs ==
    {Malformed, NoBodyDoc, NoDivDoc,
     OneParagraphDoc(Begin(B90)), OneParagraphDoc(Begin(BNan))}

\* the paths under the cache directory
PathA1   == <<"/", "PodcastContent", "a", "/", "x", ".ttml">>
PathA2   == <<"/", "PodcastContent", "a", "/", "y", ".ttml">>
PathAm1  == <<"/", "PodcastContent", "a", "-", "1", "/", "x", ".ttml">>
PathNoId == <<"/", "o", "/", "x", ".ttml">>
PathTxt  == <<"/", "PodcastContent", "a", "/", "x", ".txt">>

PathPool == {PathA1, PathA2, PathAm1, PathNoId, PathTxt}

Listings ==
    {l \in SeqsUpTo(PathPool, MaxListing) :
        \A j, k \in 1..Len(l) : j # k => l[j] # l[k]}

InPath == <<"in", ".ttml">>

OutPath == <<"out", ".txt">>

\* argparse fills the positionals in order: no output_file without input_file
Args ==
    {a \in [input_file : {Absent, Given(<<>>), Given(InPath)},
            output_file : {Absent, Given(OutPath)},
            timestamps : BOOLEAN] :
        a.output_file.given => a.input_file.given}

OldContent == <<"o", "l", "d">>

\* transcripts left by an earlier run, and an earlier single-file output
OldFiles ==
    {[path |-> q, content |-> OldContent] :
        q \in {OutPath, OutputPath(<<"a">>, 0), OutputPath(<<"a">>, 1)}}

--------------------------------------------------------------------------
(* Specifications                                                          *)

InitProgram ==
    /\ pc = "start"
    /\ files = <<>>
    /\ idx = 0
    /\ filename_counts = <<>>
    /\ ttml_content = <<>>
    /\ output_path = <<>>
    /\ stdout = <<>>
    /\ exit_status = 0
    /\ opened = <<>>
    /\ scanned = FALSE

Init ==
    /\ args \in Args
    /\ listing \in Listings
    /\ dir_exists \in BOOLEAN
    /\ fs = IF dir_exists THEN OldFiles ELSE {}
    /\ InitProgram

Next ==
    \/ SingleFile(DriverDocs)
    \/ BatchStart
    \/ BatchIteration(DriverDocs)
    \/ BatchEnd

Spec == Init /\ [][Next]_vars

\* one batch run over a single located file, its content drawn from the
\* larger document pool
InitBuilder ==
    /\ args \in {a \in Args : ~a.input_file.given}
    /\ listing = <<PathA1>>
    /\ dir_exists = TRUE
    /\ fs = OldFiles
    /\ InitProgram

NextBuilder ==
    \/ BatchStart
    \/ BatchIteration(BuilderDocs)
    \/ BatchEnd

SpecBuilder == InitBuilder /\ [][NextBuilder]_vars

--------------------------------------------------------------------------
(* Properties                                                              *)

LastMsg == stdout[Len(stdout)]

\* the last thing main did was save the transcript of ttml_content to
\* output_path
Saved ==
    /\ pc # "crashed"
    /\ stdout # <<>>
    /\ LastMsg.kind = "saved"
    /\ LastMsg.path = output_path
    /\ ttml_content # <<>>

Document == ttml_content[1]

Ended == pc \in {"done", "exit1", "crashed"}

BlankLine == <<"\n", "\n">>

\* this step opened an input file / could not read it / read it and ran
\* extract_transcript on what it read
ReadStep == opened' # opened

ReadFailed ==
    /\ ReadStep
    /\ Len(stdout') = Len(stdout) + 1
    /\ stdout'[Len(stdout')].kind = "read_error"

Extracted == ReadStep /\ ~ReadFailed

\* the timecode parser the specification describes: split on ":", three
\* parts are H:MM:SS, two are M:SS, one is plain seconds; a failure is 0
RECURSIVE SplitColon(_)
SplitColon(s) ==
    IF \A k \in 1..Len(s) : s[k] # ":" THEN <<s>>
    ELSE LET c == CHOOSE k \in 1..Len(s) :
                      s[k] = ":" /\ \A j \in 1..(k - 1) : s[j] # ":"
         IN  <<SubSeq(s, 1, c - 1)>> \o SplitColon(SubSeq(s, c + 1, Len(s)))

SpecParseTimecode(s) ==
    LET parts == SplitColon(s)
        plain == PyFloat(s)
    IN  IF Len(parts) = 1
        THEN (IF plain.raised \/ plain.kind # "finite" THEN 0 ELSE plain.ms)
        ELSE IF \E k \in 1..Len(parts) : ~IsDecimal(parts[k]) THEN 0
        ELSE IF Len(parts) = 3
        THEN 3600 * DecimalMs(parts[1]) + 60 * DecimalMs(parts[2]) + DecimalMs(parts[3])
        ELSE IF Len(parts) = 2
        THEN 60 * DecimalMs(parts[1]) + DecimalMs(parts[2])
        ELSE 0

SpecClock(s) ==
    format_timestamp([raised |-> FALSE, kind |-> "finite",
                      ms |-> SpecParseTimecode(s)]).str

\* a document whose one paragraph has text "a" and a begin attribute
OneTimedParagraph(d) == \E b \in BeginValues : d = OneParagraphDoc(Begin(b))

\* C1: with timestamps enabled, the line of a paragraph that carries a begin
\* attribute is prefixed with "[HH:MM:SS] ", the clock being the truncated
\* formatting of the seconds parsed from begin in any of its three forms
\* (H:MM:SS(.mmm), M:SS(.mmm), plain seconds).
C1_ClockOfEveryTimecodeForm ==
    (Saved /\ args.timestamps /\ OneTimedParagraph(Document)) =>
        Content(fs, output_path) =
            <<"[">> \o SpecClock(FindParagraphs(Document.root)[1].attrib.begin)
                \o <<"]", " ", "a">>

\* C4: whatever the begin attribute holds, timecode handling never raises
\* out of the builder: the run is never ended by an uncaught exception.
C4_TimecodeNeverRaises == pc # "crashed"

\* C5: in batch mode every located file is opened exactly once in discovery
\* order and the run ends with exit status zero; the exit status is non-zero
\* only when single-file mode's input could not be opened.
C5_EveryFileAttemptedExitZero ==
    Ended =>
        /\ ~SingleFileMode(args) =>
              /\ opened = [k \in 1..Len(files) |-> files[k].path]
              /\ exit_status = 0
        /\ exit_status # 0 =>
              /\ SingleFileMode(args)
              /\ stdout # <<>> /\ LastMsg.kind = "read_error"

\* the number of files discovered before the n-th with the same identifier
EarlierSameId(n) == Cardinality({m \in 1..(n - 1) : files[m].id = files[n].id})

\* C6: in a batch run the first file with identifier id goes to <id>.txt and
\* the k-th later file with the same identifier to <id>-k.txt, k counted in
\* discovery order.
C6_SuffixIsRankAmongSameId ==
    (scanned /\ opened # <<>>) =>
        LET n == Len(opened)
            k == EarlierSameId(n)
        IN  /\ output_path =
                  <<"./transcripts/">> \o files[n].id
                     \o (IF k = 0 THEN <<>> ELSE <<"-", Digits[k + 1]>>)
                     \o <<".txt">>
            /\ (LastMsg.kind = "saved" /\ pc # "crashed") =>
                  (LastMsg.path = output_path /\ Exists(fs, output_path))

C6_Witness ==
    /\ scanned
    /\ Len(opened) = 2
    /\ files[1].id = <<"a">> /\ files[2].id = <<"a">>
    /\ LastMsg.kind = "saved"
    /\ output_path = <<"./transcripts/", "a", "-", "1", ".txt">>
    /\ Exists(fs, output_path)

\* C10: no two located files of one batch run are saved to the same output
\* path, whatever their identifiers.
C10_NoTwoFilesShareAnOutputPath ==
    \A j, k \in 1..Len(stdout) :
        (j < k /\ stdout[j].kind = "saved" /\ stdout[k].kind = "saved")
            => stdout[j].path # stdout[k].path

\* the run read exactly the named input, ran the builder once on the given
\* output path and touched nothing else
SingleFileRun ==
    /\ ~scanned
    /\ files = <<>>
    /\ opened = <<args.input_file.val>>
    /\ output_path = args.output_file.val
    /\ Len(stdout) <= 1
    /\ \A f \in fs : f.path # args.output_file.val => f \in OldFiles

\* C2 as stated: whenever both paths are supplied the run is single-file
\* mode, whatever the timestamps flag.
C2_PathsAloneSelectSingleFile ==
    (pc # "start" /\ Truthy(args.input_file) /\ Truthy(args.output_file))
        => SingleFileRun

\* C2, amended: both paths supplied and the timestamps flag not set give
\* single-file mode; everything else, the timestamps flag with or without
\* paths included, gives batch mode, so a saved line carries a timestamp
\* prefix only in batch mode.
C2_FlagForcesBatchMode ==
    pc # "start" =>
        /\ (Truthy(args.input_file) /\ Truthy(args.output_file) /\ ~args.timestamps)
              => SingleFileRun
        /\ (~Truthy(args.input_file) \/ ~Truthy(args.output_file) \/ args.timestamps)
              => (scanned /\ files = find_ttml_files(listing)
                    /\ \A k \in 1..Len(opened) : opened[k] = files[k].path)
        /\ (Saved /\ Content(fs, output_path) # <<>>
              /\ Head(Content(fs, output_path)) = "[") => scanned

C2_Witness ==
    /\ pc = "done"
    /\ ~scanned
    /\ Saved
    /\ output_path = OutPath
    /\ Content(fs, OutPath) = <<"a">>

\* a well-formed document without body, or whose bodies have no div child
NoBodyOrNoDiv(d) ==
    /\ d.wf
    /\ \A e \in {FindDescendants(d.root, "body")[k] :
                    k \in 1..Len(FindDescendants(d.root, "body"))} :
           FindChildren(e, "div") = <<>>

HasDirectSpan(p) ==
    \E k \in 1..Len(p.children) : p.children[k].elem.tag.local = "span"

\* the positions of the paragraphs that have a direct span child and span
\* text that is not empty after trimming
Speaking(ps) == {k \in 1..Len(ps) : HasDirectSpan(ps[k]) /\ ParagraphText(ps[k]) # <<>>}

\* the j-th smallest member of a set of positions
NthOf(Q, j) == CHOOSE k \in Q : Cardinality({m \in Q : m < k}) = j - 1

\* C7: the written transcript holds exactly one line per paragraph that has
\* a direct span child and non-empty trimmed span text, in document order,
\* joined by a blank line; the other paragraphs contribute nothing.
C7_OneLinePerSpeakingParagraph ==
    Saved =>
        LET ps == FindParagraphs(Document.root)
            Q  == Speaking(ps)
        IN  Content(fs, output_path) =
                Join(BlankLine,
                     [j \in 1..Cardinality(Q) |->
                         ParagraphLine(ps[NthOf(Q, j)], args.timestamps).lines[1]])

C7_Witness ==
    /\ Saved
    /\ Len(FindParagraphs(Document.root)) >= 3
    /\ Cardinality(Speaking(FindParagraphs(Document.root))) = 2
    /\ 1 \notin Speaking(FindParagraphs(Document.root))
    /\ Content(fs, output_path) # <<>>

\* C8: malformed XML never crashes the program and never produces output:
\* the parse error is printed, the output location is left as it was, and a
\* batch goes on with the next file.
C8_MalformedXmlLeavesNoOutput ==
    [][(Extracted /\ ~ttml_content'[1].wf) =>
          /\ fs' = fs
          /\ stdout' = Append(stdout, Msg("xml_error", <<>>, 0))
          /\ pc' # "crashed"
          /\ exit_status' = exit_status \/ (pc' = "done" /\ exit_status' = 0)
          /\ pc = "loop" => (pc' = "loop" /\ idx' = idx + 1)]_vars

C8_Witness ==
    /\ pc = "loop"
    /\ Len(files) >= 2
    /\ idx = 2
    /\ ttml_content = <<Malformed>>
    /\ LastMsg.kind = "xml_error"
    /\ fs = OldFiles

\* the lines the paragraphs of one div give
LinesOfDiv(div) == BuildTranscript(FindChildren(div, "p"), args.timestamps).lines

DivsOfBody(d) ==
    LET bodies == FindChildren(d.root, "body")
    IN  Flatten([b \in 1..Len(bodies) |-> FindChildren(bodies[b], "div")])

\* C9 as stated: only the p children of the first div child of body
\* contribute lines.
C9_OnlyFirstDivContributes ==
    Saved =>
        Content(fs, output_path) =
            Join(BlankLine,
                 BuildTranscript(FindParagraphs_FirstDivOnly(Document.root),
                                 args.timestamps).lines)

\* C9, amended: the p children of every div child of body contribute, div
\* after div in document order.
C9_EveryDivContributes ==
    Saved =>
        LET divs == DivsOfBody(Document)
        IN  Content(fs, output_path) =
                Join(BlankLine, Flatten([j \in 1..Len(divs) |-> LinesOfDiv(divs[j])]))

C9_Witness ==
    /\ Saved
    /\ Len(DivsOfBody(Document)) = 2
    /\ LinesOfDiv(DivsOfBody(Document)[1]) = << <<"a">> >>
    /\ LinesOfDiv(DivsOfBody(Document)[2]) # <<>>
    /\ Content(fs, output_path) # <<"a">>

====
